---- MODULE Spec2Model ----
(***************************************************************************)
(* Cross-service stateless authentication of library-microservices.        *)
(*                                                                         *)
(* Books Service: StatelessJWTAuthentication (custom_auth.py) verifies the *)
(* bearer credential locally and resolves the user with one HTTP GET to    *)
(* the Authentication Service; BookViewSet (books/views.py) runs behind    *)
(* it.  Authentication Service: UserDetailView and LogoutView (views.py)   *)
(* and the token refresh route (urls.py).                                  *)
(***************************************************************************)
EXTENDS Integers, FiniteSets, Sequences, TLC

----------------------------------------------------------------------------
(* Bounds of the model                                                     *)

MaxUser == 2          \* user ids 1..MaxUser exist in the Authentication Service
NumReq == 2           \* Books Service requests that may be in flight together
NumLogout == 2        \* logout requests that may be in flight together

UserIds == 1..MaxUser
\* The accounts of the Authentication Service whose User row has is_staff.
StaffIds == {1}
Reqs == 1..NumReq
LogoutReqs == 1..NumLogout

----------------------------------------------------------------------------
(* Credentials.  user_id = 0 stands for a token whose user_id claim is     *)
(* absent or falsy; sig = FALSE for a token not signed with the shared key *)

Token(type, user_id, sig) ==
    [token_type |-> type, user_id |-> user_id, sig |-> sig]

AccessTokens == {Token("access", u, TRUE) : u \in 0..MaxUser}
ForgedTokens == {Token("access", 1, FALSE)}
RefreshTokens == {Token("refresh", u, TRUE) : u \in UserIds}
Tokens == AccessTokens \cup ForgedTokens \cup RefreshTokens

\* Authorization header values a client may send: absent, another scheme,
\* the Bearer scheme without exactly one token after it, "Bearer <token>".
NoHeader == [scheme |-> "absent", parts |-> 0, token |-> Token("none", 0, FALSE)]
BasicHeader == [scheme |-> "Basic", parts |-> 2, token |-> Token("none", 0, FALSE)]
BareBearer == [scheme |-> "Bearer", parts |-> 1, token |-> Token("none", 0, FALSE)]
Bearer(t) == [scheme |-> "Bearer", parts |-> 2, token |-> t]
Headers == {NoHeader, BasicHeader, BareBearer} \cup {Bearer(t) : t \in Tokens}

NoToken == Token("none", 0, FALSE)

----------------------------------------------------------------------------
(* State                                                                   *)

VARIABLES
    expired,    \* the credential types whose lifetime has run out
    users,      \* ids of the User rows of the Authentication Service
    blacklist,  \* refresh credentials in the token blacklist (Revocation Set)
    req,        \* Books Service requests in flight, one record per thread
    answered,   \* the Books Service request answered last, as it ended
    logout,     \* Authentication Service logout requests
    refresh,    \* the Authentication Service refresh request
    issued,     \* the answer of the token route to the login made last
    silent      \* per request in its GET: seconds gone without a byte of it

vars == <<expired, users, blacklist, req, answered, logout, refresh, issued,
          silent>>

----------------------------------------------------------------------------
(* Values exchanged between the two services                               *)

EmptyString == <<>>
Username(u) == <<"user", u>>
Email(u) == <<"mail", u>>

\* A JSON object body: the keys it carries and their values.
Body(fields, id, username, email) ==
    [fields |-> fields, id |-> id, username |-> username, email |-> email]
NoBody == Body({}, 0, EmptyString, EmptyString)

\* What requests.get ends with: a response (status, JSON-decodable or not,
\* body) or an exception of the requests library.
Response(status, json, body) ==
    [kind |-> "response", status_code |-> status, json |-> json, body |-> body]
Raised(exc) ==
    [kind |-> exc, status_code |-> 0, json |-> FALSE, body |-> NoBody]
NoResp == [kind |-> "none", status_code |-> 0, json |-> FALSE, body |-> NoBody]

\* The outbound GET of the resolver: the user id in the URL and the
\* Authorization header (present or not, and the token after "Bearer ").
Call(user_id, has_auth, token) ==
    [user_id |-> user_id, has_auth |-> has_auth, token |-> token]
NoCall == Call(0, FALSE, NoToken)

\* request.user before and without a successful authentication.
AnonymousUser ==
    [id |-> 0, username |-> EmptyString, email |-> EmptyString,
     is_authenticated |-> FALSE, is_active |-> FALSE, is_anonymous |-> TRUE]

\* How authenticate ended: returned None ("none"), returned (user, token)
\* ("user"), or raised the exception class `kind` with message `detail`
\* (`code` is the upstream status quoted in the message, else 0).
Outcome(kind, detail, code, user) ==
    [kind |-> kind, detail |-> detail, code |-> code, user |-> user]
Pending == Outcome("pending", "", 0, AnonymousUser)
ReturnedNone == Outcome("none", "", 0, AnonymousUser)
AuthenticationFailed(detail, code) ==
    Outcome("AuthenticationFailed", detail, code, AnonymousUser)

----------------------------------------------------------------------------
(* Books Service: StatelessJWTAuthentication                               *)

\* A Books Service request: where its thread is, the Authorization header
\* it came with, request._raw_token, the GET it issued and how many it
\* issued, what requests.get ended with, how authenticate ended, and what
\* DRF answered: the HTTP status, the BookViewSet action asked for, whether
\* its handler ran, the user_id of the book an update or a delete is aimed
\* at (0: none), and the user_id values serializer.save stored (0: null).
Request(pc, header, raw_token, call, ncalls, resp, outcome, status, action, ran, owner, saved) ==
    [pc |-> pc, header |-> header, raw_token |-> raw_token, call |-> call,
     ncalls |-> ncalls, resp |-> resp, outcome |-> outcome, status |-> status,
     action |-> action, ran |-> ran, owner |-> owner, saved |-> saved]
IdleRequest ==
    Request("idle", NoHeader, NoToken, NoCall, 0, NoResp, Pending, 0, "none", FALSE,
            0, <<>>)

\* JWTAuthentication.get_raw_token: None for an empty header or another
\* scheme, AuthenticationFailed unless exactly two parts, else the token.
get_raw_token(header) ==
    IF header.parts = 0 THEN "None"
    ELSE IF header.scheme # "Bearer" THEN "None"
    ELSE IF header.parts # 2 THEN "AuthenticationFailed"
    ELSE "token"

\* get_validated_token without the signature check.
get_validated_token_unsigned(raw_token, lapsed) ==
    /\ raw_token.token_type \notin lapsed
    /\ raw_token.token_type = "access"

\* get_validated_token without the check of the token_type claim.
get_validated_token_any_type(raw_token, lapsed) ==
    /\ raw_token.sig
    /\ raw_token.token_type \notin lapsed

\* JWTAuthentication.get_validated_token with AccessToken: signature,
\* expiry (the credential types in `lapsed` have expired), token_type claim.
get_validated_token(raw_token, lapsed) ==
    /\ raw_token.sig
    /\ raw_token.token_type \notin lapsed
    /\ raw_token.token_type = "access"

\* The stack search finding no frame that carries _raw_token.
stack_raw_token_not_found(rq) == NoToken

\* The stack search ending on a frame of another request, that of user 1.
stack_raw_token_of_other_request(rq) == Token("access", 1, TRUE)

\* get_user, lines 53-61: the first frame of this thread's stack that has a
\* local named `request` carrying _raw_token is the frame of authenticate,
\* whose request is the one being authenticated.
stack_raw_token(rq) == rq.raw_token

\* get_user, lines 64-72: the URL and headers of the GET.
build_call(user_id, raw_token) ==
    IF raw_token # NoToken
    THEN Call(user_id, TRUE, raw_token)
    ELSE Call(user_id, FALSE, NoToken)

\* authenticate up to the point where the thread blocks in requests.get, or
\* to its end when it returns or raises before that.
authenticate_begin(rq, header, lapsed) ==
    LET got == get_raw_token(header)
        r0 == [rq EXCEPT !.header = header]
    IN  IF header = NoHeader \/ got = "None"
        THEN [r0 EXCEPT !.pc = "authenticated", !.outcome = ReturnedNone]
        ELSE IF got = "AuthenticationFailed"
        THEN [r0 EXCEPT !.pc = "authenticated",
                        !.outcome = AuthenticationFailed("bad_authorization_header", 0)]
        ELSE IF ~get_validated_token(header.token, lapsed)
        THEN [r0 EXCEPT !.pc = "authenticated",
                        !.outcome = AuthenticationFailed("token_not_valid", 0)]
        ELSE LET r1 == [r0 EXCEPT !.raw_token = header.token]
                 user_id == header.token.user_id
             IN  IF user_id = 0
                 THEN [r1 EXCEPT !.pc = "authenticated",
                                 !.outcome = AuthenticationFailed("Token has no user_id", 0)]
                 ELSE [r1 EXCEPT !.pc = "waiting",
                                 !.call = build_call(user_id, stack_raw_token(r1)),
                                 !.ncalls = @ + 1]

\* The exception classes requests.get may raise, and their base classes:
\* ConnectTimeout derives from both ConnectionError and Timeout.
RequestExceptions == {"ReadTimeout", "ConnectTimeout", "ConnectionError", "TooManyRedirects"}
IsTimeout(exc) == exc \in {"ReadTimeout", "ConnectTimeout"}
IsConnectionError(exc) == exc \in {"ConnectionError", "ConnectTimeout"}

\* StatelessUser.__init__ taking the username for the email.
StatelessUser_email_from_username(data) ==
    [id |-> data.id, username |-> data.username, email |-> data.username,
     is_authenticated |-> TRUE, is_active |-> TRUE, is_anonymous |-> FALSE]

\* StatelessUser.__init__ giving the principal the staff status of the
\* account it stands for.
StatelessUser_with_account_staff(data) ==
    [id |-> data.id, username |-> data.username,
     email |-> IF "email" \in data.fields THEN data.email ELSE EmptyString,
     is_authenticated |-> TRUE, is_active |-> TRUE, is_anonymous |-> FALSE,
     is_staff |-> data.id \in StaffIds]

\* The attributes StatelessUser.__init__ sets, lines 82-87.
StatelessUserAttributes ==
    {"id", "username", "email", "is_authenticated", "is_active", "is_anonymous"}

\* StatelessUser.__init__, lines 81-87, on a body that has id and username.
StatelessUser(data) ==
    [id |-> data.id, username |-> data.username,
     email |-> IF "email" \in data.fields THEN data.email ELSE EmptyString,
     is_authenticated |-> TRUE, is_active |-> TRUE, is_anonymous |-> FALSE]

\* get_user, lines 74-92: the 200 branch.  On a body that is not JSON,
\* response.json() raises requests.JSONDecodeError, a RequestException,
\* which line 105 catches; a missing key raises KeyError, which nothing
\* catches.
on_status_200(resp) ==
    IF ~resp.json
    THEN AuthenticationFailed("Auth Service request failed", 0)
    ELSE IF "id" \notin resp.body.fields \/ "username" \notin resp.body.fields
    THEN Outcome("KeyError", "", 0, AnonymousUser)
    ELSE Outcome("user", "", 0, StatelessUser(resp.body))

\* The status dispatch with the 404 and 401 branches missing.
on_response_two_way(resp) ==
    IF resp.status_code = 200 THEN on_status_200(resp)
    ELSE AuthenticationFailed("Auth Service error", resp.status_code)

\* get_user, lines 74-99: the status dispatch.
on_response(resp) ==
    IF resp.status_code = 200 THEN on_status_200(resp)
    ELSE IF resp.status_code = 404
    THEN AuthenticationFailed("User not found in Auth Service", 0)
    ELSE IF resp.status_code = 401
    THEN AuthenticationFailed("Invalid or expired token", 0)
    ELSE AuthenticationFailed("Auth Service error", resp.status_code)

\* The except clauses with ConnectionError tried before Timeout.
on_exception_reordered(exc) ==
    IF IsConnectionError(exc)
    THEN AuthenticationFailed("Cannot connect to Auth Service", 0)
    ELSE IF IsTimeout(exc) THEN AuthenticationFailed("Auth Service timeout", 0)
    ELSE AuthenticationFailed("Auth Service request failed", 0)

\* get_user, lines 101-106: the except clauses, in their order.
on_exception(exc) ==
    IF IsTimeout(exc) THEN AuthenticationFailed("Auth Service timeout", 0)
    ELSE IF IsConnectionError(exc)
    THEN AuthenticationFailed("Cannot connect to Auth Service", 0)
    ELSE AuthenticationFailed("Auth Service request failed", 0)

\* get_user calling requests.get once more after a timeout.
authenticate_end_retry(rq, resp) ==
    IF IsTimeout(resp.kind) /\ rq.ncalls < 2
    THEN [rq EXCEPT !.ncalls = @ + 1]
    ELSE [rq EXCEPT !.pc = "authenticated",
                    !.resp = resp,
                    !.outcome = IF resp.kind = "response"
                                THEN on_response(resp)
                                ELSE on_exception(resp.kind)]

\* get_user from the return of requests.get to its own end, and the end of
\* authenticate with it.
authenticate_end(rq, resp) ==
    [rq EXCEPT !.pc = "authenticated",
               !.resp = resp,
               !.outcome = IF resp.kind = "response"
                           THEN on_response(resp)
                           ELSE on_exception(resp.kind)]

----------------------------------------------------------------------------
(* Books Service: BookViewSet behind the authentication                    *)

Actions == {"list", "retrieve", "create", "update", "partial_update", "destroy",
            "my_books", "statistics", "with_user_info"}

\* A permission that lets every request through.
AllowAny(user) == TRUE

\* rest_framework.permissions.IsAuthenticated, first of permission_classes.
IsAuthenticated(user) == user.is_authenticated

\* The staff status the Authorization Gate finds on request.user: that of
\* its is_staff attribute, none on an object that has no such attribute.
is_staff(user) == "is_staff" \in DOMAIN user /\ user.is_staff

\* IsAdminOrReadOnly and IsOwnerOrAdmin (books/permissions.py): the policy
\* of the Authorization Gate.
authorize(user, owner, action) ==
    IF action \in {"update", "partial_update"} THEN user.id = owner \/ is_staff(user)
    ELSE IF action = "destroy" THEN is_staff(user)
    ELSE TRUE

\* The actions on one book, which the handler fetches with get_object, and
\* those among them whose permission is about that book.
DetailActions == {"retrieve", "update", "partial_update", "destroy", "with_user_info"}
ObjectActions == {"update", "partial_update", "destroy"}

\* The part of the policy that has_permission decides before the handler,
\* without the book, and the part that has_object_permission decides on the
\* book get_object fetched.
has_permission(user, action) ==
    action = "destroy" => authorize(user, 0, action)
has_object_permission(user, owner, action) ==
    action \in {"update", "partial_update"} => authorize(user, owner, action)

\* permission_classes holding IsAuthenticated alone.
check_permissions_authenticated_only(user, action) == IsAuthenticated(user)

\* BookViewSet.permission_classes, checked in order before the handler.
check_permissions(user, action) ==
    /\ IsAuthenticated(user)
    /\ has_permission(user, action)

\* Book with a ForeignKey named user.
Book_relations_with_user == {"user"}

\* The relation fields of Book (models.py): none, user_id is an
\* IntegerField.
Book_relations == {}

\* BookViewSet.queryset (views.py line 45) is
\* Book.objects.select_related('user'): compiling a query that selects its
\* rows raises FieldError for a name that is no relation of the model.
\* count() and values() drop select_related, so statistics is not affected,
\* and create does not use the queryset.
select_related == {"user"}
FieldError == ~(select_related \subseteq Book_relations)
EvaluatesQueryset ==
    {"list", "retrieve", "update", "partial_update", "destroy", "my_books",
     "with_user_info"}

\* The status a BookViewSet action answers once it ran to its end.
\* with_user_info calls requests.get on django.contrib.sites.requests
\* (views.py line 2), which has no get: AttributeError, no HTTP call, 500.
action_status(action) ==
    IF action = "with_user_info" THEN 500
    ELSE IF action = "create" THEN 201
    ELSE IF action = "destroy" THEN 204
    ELSE 200

\* perform_create saving the user_id of the request body.
perform_create_from_body(user, data) == data

\* BookViewSet.perform_create: serializer.save(user_id=id) with the id of
\* request.user; the keyword argument replaces a user_id of the validated
\* body (data, 0 when the body has none).
perform_create(user, data) == user.id

\* The handler of the action, on a body the serializer accepts: create
\* saves the book; the others evaluate the queryset, in get_object before
\* the object permissions are checked, or count its rows.
run_action(rq, user, action, owner, data) ==
    LET r1 == [rq EXCEPT !.ran = TRUE]
    IN  IF action = "create"
        THEN [r1 EXCEPT !.status = action_status(action),
                        !.saved = <<perform_create(user, data)>>]
        ELSE IF action \in EvaluatesQueryset /\ FieldError
        THEN [r1 EXCEPT !.status = 500]
        ELSE IF action \in DetailActions /\ ~has_object_permission(user, owner, action)
        THEN [r1 EXCEPT !.status = 403]
        ELSE [r1 EXCEPT !.status = action_status(action)]

\* APIView.initial and dispatch after authenticate ended: an APIException
\* of the authenticator is answered 401, any other exception 500; else the
\* permissions are checked with request.user and the handler runs.  The
\* action is recorded once the permissions of an authenticated user are
\* checked for it.
dispatch(rq, action, owner, data) ==
    LET out == rq.outcome
        user == IF out.kind = "user" THEN out.user ELSE AnonymousUser
        r0 == [rq EXCEPT !.pc = "done"]
        r1 == [r0 EXCEPT !.action = action,
                         !.owner = IF action \in ObjectActions THEN owner ELSE 0]
    IN  IF out.kind = "AuthenticationFailed"
        THEN [r0 EXCEPT !.status = 401]
        ELSE IF out.kind \notin {"user", "none"}
        THEN [r0 EXCEPT !.status = 500]
        ELSE IF ~IsAuthenticated(user)
        THEN [r0 EXCEPT !.status = 401]
        ELSE IF ~check_permissions(user, action)
        THEN [r1 EXCEPT !.status = 403]
        ELSE run_action(r1, user, action, owner, data)

----------------------------------------------------------------------------
(* Authentication Service: the User Resolution Endpoint                    *)

UserFields == {"id", "username", "email", "first_name", "last_name"}

\* UserDetailView.get looking up a User row without the id of the URL.
UserDetailView_get_any_row(user_id, rows) ==
    IF rows # {}
    THEN LET first == CHOOSE u \in rows : \A v \in rows : u <= v
         IN  Response(200, TRUE, Body(UserFields, first, Username(first), Email(first)))
    ELSE Response(404, FALSE, NoBody)

\* UserDetailView.get, lines 216-225.
UserDetailView_get(user_id, rows) ==
    IF user_id \in rows
    THEN Response(200, TRUE, Body(UserFields, user_id, Username(user_id), Email(user_id)))
    ELSE Response(404, FALSE, NoBody)

\* The access-credential check turning away the access credential of a
\* user whose refresh credential is in the token blacklist.
remote_verify_after_blacklist(call, lapsed) ==
    /\ call.has_auth
    /\ call.token.sig
    /\ call.token.token_type \notin lapsed
    /\ call.token.token_type = "access"
    /\ Token("refresh", call.token.user_id, TRUE) \notin blacklist

\* The access-credential check behind permission_classes = [IsAuthenticated]
\* of UserDetailView: signature, expiry, token type.
remote_verify(call, lapsed) ==
    /\ call.has_auth
    /\ call.token.sig
    /\ call.token.token_type \notin lapsed
    /\ call.token.token_type = "access"

\* What the Authentication Service answers to the GET.  Its views take
\* request.user for a User row (views.py lines 65 and 146-156), which is
\* what an authenticator gives that loads the row of the token's user_id
\* and answers 401 when the row is gone; the setting that names the
\* authenticator is not part of the sources, so the answer of the view for
\* a token whose row is gone is kept as well.
auth_service_answers(call, lapsed, rows) ==
    IF ~remote_verify(call, lapsed) THEN {Response(401, FALSE, NoBody)}
    ELSE {UserDetailView_get(call.user_id, rows)}
         \cup (IF call.token.user_id \in rows THEN {} ELSE {Response(401, FALSE, NoBody)})

\* What requests.get(url, headers, timeout=5) can end with: the answer of
\* the Authentication Service, the same 200 with a key of the body missing,
\* a 200 that is not JSON, another status from in between, or an exception.
DropKey(resp, key) ==
    [resp EXCEPT !.body.fields = @ \ {key},
                 !.body.id = IF key = "id" THEN 0 ELSE @,
                 !.body.username = IF key = "username" THEN EmptyString ELSE @,
                 !.body.email = IF key = "email" THEN EmptyString ELSE @]
OtherStatuses == {204, 500}
requests_get(call, lapsed, rows) ==
    LET genuine == auth_service_answers(call, lapsed, rows)
    IN  genuine
        \cup {DropKey(a, k) : a \in {g \in genuine : g.status_code = 200},
                              k \in {"id", "username", "email"}}
        \cup {Response(200, FALSE, NoBody)}
        \cup {Response(s, FALSE, NoBody) : s \in OtherStatuses}
        \cup {Raised(e) : e \in RequestExceptions}

----------------------------------------------------------------------------
(* Authentication Service: logout and refresh                              *)

\* token.blacklist() (views.py line 281) exists only with the
\* token_blacklist app installed, and with it RefreshToken.verify consults
\* the blacklist.
token_blacklist_installed == TRUE

\* The `refresh` field a client may post: missing, a refresh credential, a
\* refresh credential with a bad signature, an access credential.
RefreshInputs ==
    {NoToken} \cup RefreshTokens
    \cup {Token("refresh", 1, FALSE), Token("access", 1, TRUE)}

\* RefreshToken(raw): signature, expiry, token type, and the blacklist.
RefreshToken_verify(raw, lapsed, revoked) ==
    /\ raw.sig
    /\ raw.token_type \notin lapsed
    /\ raw.token_type = "refresh"
    /\ ~(token_blacklist_installed /\ raw \in revoked)

\* A logout request: where its thread is, the refresh field, whether a
\* logout with that credential had already answered 200 when it started,
\* and the answer.
LogoutRequest(pc, token, after_logout, status) ==
    [pc |-> pc, token |-> token, after_logout |-> after_logout, status |-> status]
IdleLogout == LogoutRequest("idle", NoToken, FALSE, 0)

\* LogoutView.post going on to blacklist() without RefreshToken(...) having
\* verified the credential.
logout_verify_unchecked(authenticated, token, after, lapsed, revoked) ==
    IF ~authenticated THEN LogoutRequest("done", token, after, 401)
    ELSE IF token = NoToken THEN LogoutRequest("done", token, after, 400)
    ELSE LogoutRequest("verified", token, after, 0)

\* LogoutView.post, lines 270-280 and 289-294: up to RefreshToken(...).
logout_verify(authenticated, token, after, lapsed, revoked) ==
    IF ~authenticated THEN LogoutRequest("done", token, after, 401)
    ELSE IF token = NoToken THEN LogoutRequest("done", token, after, 400)
    ELSE IF ~RefreshToken_verify(token, lapsed, revoked)
    THEN LogoutRequest("done", token, after, 400)
    ELSE LogoutRequest("verified", token, after, 0)

\* token.blacklist() leaving the blacklist as it was.
token_blacklist_noop(token, revoked) == revoked

\* LogoutView.post, line 281: the rows token.blacklist() leaves.
token_blacklist(token, revoked) == revoked \cup {token}

\* LogoutView.post, lines 281-294: blacklist() and the answer.
logout_status == IF token_blacklist_installed THEN 200 ELSE 400

\* A refresh request: where its thread is, the refresh field, whether a
\* logout with that credential had already answered 200 when it started,
\* and the answer.
RefreshRequest(pc, token, after_logout, status) ==
    [pc |-> pc, token |-> token, after_logout |-> after_logout, status |-> status]
IdleRefresh == RefreshRequest("idle", NoToken, FALSE, 0)

\* TokenRefreshView (urls.py line 13): 200 with a new access credential
\* when RefreshToken(raw) verifies, else 401.
refresh_status(token, lapsed, revoked) ==
    IF token # NoToken /\ RefreshToken_verify(token, lapsed, revoked) THEN 200
    ELSE IF token = NoToken THEN 400
    ELSE 401

----------------------------------------------------------------------------
(* Authentication Service: the token route                                 *)

\* What the token route answers: the status, the id of the account the
\* username and password authenticated, and the pair of credentials.
TokenResponse(status, user_id, access_token, refresh_token) ==
    [status |-> status, user_id |-> user_id,
     access |-> access_token, refresh |-> refresh_token]
NoTokens == TokenResponse(0, 0, NoToken, NoToken)

\* CustomTokenObtainPairView.post, line 243: TokenObtainPairView.post.  The
\* serializer authenticates username and password against the User rows
\* and mints RefreshToken.for_user(user) and its access_token, both with
\* user.id in the user_id claim; without an account it answers 401.
TokenObtainPair(u, password_ok, rows) ==
    IF u \in rows /\ password_ok
    THEN TokenResponse(200, u, Token("access", u, TRUE), Token("refresh", u, TRUE))
    ELSE TokenResponse(401, 0, NoToken, NoToken)

----------------------------------------------------------------------------
(* Actions                                                                 *)

Init ==
    /\ expired = {}
    /\ users = UserIds
    /\ blacklist = {}
    /\ req = [r \in Reqs |-> IdleRequest]
    /\ answered = IdleRequest
    /\ logout = [l \in LogoutReqs |-> IdleLogout]
    /\ refresh = IdleRefresh
    /\ issued = NoTokens
    /\ silent = [r \in Reqs |-> 0]

\* The owners of the book a request for the action may target: only the
\* actions that check the object against the user read Book.user_id.
TargetOwners(action) == IF action \in ObjectActions THEN UserIds ELSE {0}

\* The user_id the body of a request for the action may carry (0: none):
\* only create saves a book from the body.
BodyUserIds(action) == IF action = "create" THEN 0..MaxUser ELSE {0}

\* The answers DRF can give once authenticate ended as in rq, over the
\* actions a request may ask for, the owners of the book it may target and
\* the user_id its body may carry.
Answers(rq) ==
    UNION {{dispatch(rq, action, owner, data) :
               owner \in TargetOwners(action), data \in BodyUserIds(action)} :
           action \in Actions}

\* A request reaches the Books Service: authenticate runs until it returns,
\* raises, or blocks in requests.get; when it ended, DRF answers and the
\* request is over.
Authenticate(r) ==
    /\ req[r].pc = "idle"
    /\ \E rq \in {authenticate_begin(req[r], header, expired) : header \in Headers} :
          IF rq.pc = "waiting"
          THEN /\ req' = [req EXCEPT ![r] = rq]
               /\ UNCHANGED answered
          ELSE /\ answered' \in Answers(rq)
               /\ UNCHANGED req
    /\ UNCHANGED <<expired, users, blacklist, logout, refresh, issued, silent>>

\* requests.get returns or raises: get_user and authenticate end, DRF
\* checks the permissions, runs the action and answers; the request object
\* and its thread's stack are gone.
RequestsGetReturns(r) ==
    /\ req[r].pc = "waiting"
    /\ \E rq \in {authenticate_end(req[r], resp) :
                     resp \in requests_get(req[r].call, expired, users)} :
          IF rq.pc = "waiting"
          THEN /\ req' = [req EXCEPT ![r] = rq]
               /\ UNCHANGED answered
          ELSE /\ answered' \in Answers(rq)
               /\ req' = [req EXCEPT ![r] = IdleRequest]
    /\ UNCHANGED <<expired, users, blacklist, logout, refresh, issued, silent>>

\* Time passes: the access credentials expire, and later the refresh
\* credentials, which live longer.
Tick ==
    /\ expired # {"access", "refresh"}
    /\ expired' = IF expired = {} THEN {"access"} ELSE {"access", "refresh"}
    /\ UNCHANGED <<users, blacklist, req, answered, logout, refresh, issued, silent>>

\* A User row of the Authentication Service is deleted.
DeleteUser(u) ==
    /\ u \in users
    /\ users' = users \ {u}
    /\ UNCHANGED <<expired, blacklist, req, answered, logout, refresh, issued, silent>>

\* A logout with this credential has answered 200.
LoggedOut(token) ==
    \E l \in LogoutReqs : /\ logout[l].pc = "done"
                          /\ logout[l].status = 200
                          /\ logout[l].token = token

\* LogoutView.post up to RefreshToken(refresh_token).
LogoutVerify(l) ==
    /\ logout[l].pc = "idle"
    /\ \E authenticated \in BOOLEAN, token \in RefreshInputs :
          logout' = [logout EXCEPT ![l] =
                        logout_verify(authenticated, token, LoggedOut(token), expired, blacklist)]
    /\ UNCHANGED <<expired, users, blacklist, req, answered, refresh, issued, silent>>

\* LogoutView.post from token.blacklist() to the answer.
LogoutBlacklist(l) ==
    /\ logout[l].pc = "verified"
    /\ blacklist' = IF token_blacklist_installed
                    THEN token_blacklist(logout[l].token, blacklist)
                    ELSE blacklist
    /\ logout' = [logout EXCEPT ![l] = [@ EXCEPT !.pc = "done", !.status = logout_status]]
    /\ UNCHANGED <<expired, users, req, answered, refresh, issued, silent>>

\* A refresh request reaches the Authentication Service.
RefreshStart ==
    /\ refresh.pc = "idle"
    /\ \E token \in RefreshInputs :
          refresh' = RefreshRequest("started", token, LoggedOut(token), 0)
    /\ UNCHANGED <<expired, users, blacklist, req, answered, logout, issued, silent>>

\* TokenRefreshView validates the credential and answers.
RefreshVerify ==
    /\ refresh.pc = "started"
    /\ refresh' = [refresh EXCEPT !.pc = "done",
                                  !.status = refresh_status(refresh.token, expired, blacklist)]
    /\ UNCHANGED <<expired, users, blacklist, req, answered, logout, issued, silent>>

\* The refresh answer is sent.
RefreshEnds ==
    /\ refresh.pc = "done"
    /\ refresh' = IdleRefresh
    /\ UNCHANGED <<expired, users, blacklist, req, answered, logout, issued, silent>>

\* The client posts the username of user u and a password, right or wrong,
\* to the token route, until it holds a pair of credentials.  The
\* credentials of the model are those issued before the first lifetime runs
\* out.
Login(u) ==
    /\ expired = {}
    /\ issued.status # 200
    /\ \E password_ok \in BOOLEAN : issued' = TokenObtainPair(u, password_ok, users)
    /\ UNCHANGED <<expired, users, blacklist, req, answered, logout, refresh, silent>>

\* The client presents the access credential of its last login to the
\* Books Service.
PresentIssued(r) ==
    /\ req[r].pc = "idle"
    /\ issued.status = 200
    /\ LET rq == authenticate_begin(req[r], Bearer(issued.access), expired)
       IN  IF rq.pc = "waiting"
           THEN /\ req' = [req EXCEPT ![r] = rq]
                /\ UNCHANGED answered
           ELSE /\ answered' \in Answers(rq)
                /\ UNCHANGED req
    /\ UNCHANGED <<expired, users, blacklist, logout, refresh, issued, silent>>

\* The client logs out with the credentials of its login, once: the access
\* credential as bearer, which authenticates it while it has not expired
\* and its user exists, and the refresh credential in the body.
LogoutIssued(l) ==
    /\ \A k \in LogoutReqs : logout[k].pc = "idle"
    /\ issued.status = 200
    /\ LET authenticated == "access" \notin expired /\ issued.user_id \in users
       IN  logout' = [logout EXCEPT ![l] =
                         logout_verify(authenticated, issued.refresh,
                                       LoggedOut(issued.refresh), expired, blacklist)]
    /\ UNCHANGED <<expired, users, blacklist, req, answered, refresh, issued, silent>>

\* After its logout was answered 200 the client goes on presenting the
\* access credential of the same login to the Books Service.
PresentAfterLogout(r) ==
    /\ LoggedOut(issued.refresh)
    /\ PresentIssued(r)

\* requests.get(url, headers=headers, timeout=5), line 72: the number bounds
\* every wait for the server, on connect and on each read of the socket.
timeout == 5

\* What requests.get ends with other than by its timeout.
untimed_results(call, lapsed, rows) ==
    {resp \in requests_get(call, lapsed, rows) : ~IsTimeout(resp.kind)}

\* A second goes by in which no byte of the answer arrives.
ServerSilent(r) ==
    /\ req[r].pc = "waiting"
    /\ silent[r] < timeout
    /\ silent' = [silent EXCEPT ![r] = @ + 1]
    /\ UNCHANGED <<expired, users, blacklist, req, answered, logout, refresh, issued>>

\* Bytes of the answer arrive, not yet the whole of it: the wait for the
\* next read starts anew.
ServerSends(r) ==
    /\ req[r].pc = "waiting"
    /\ 0 < silent[r] /\ silent[r] < timeout
    /\ silent' = [silent EXCEPT ![r] = 0]
    /\ UNCHANGED <<expired, users, blacklist, req, answered, logout, refresh, issued>>

\* The answer is complete, or the connection fails, before a wait reached
\* the timeout: requests.get returns or raises, get_user and authenticate
\* end and DRF answers.
GetCompletes(r) ==
    /\ req[r].pc = "waiting"
    /\ silent[r] < timeout
    /\ \E resp \in untimed_results(req[r].call, expired, users) :
          /\ answered' \in Answers(authenticate_end(req[r], resp))
          /\ req' = [req EXCEPT ![r] = IdleRequest]
    /\ silent' = [silent EXCEPT ![r] = 0]
    /\ UNCHANGED <<expired, users, blacklist, logout, refresh, issued>>

\* A wait reached the timeout: requests.get raises ConnectTimeout or
\* ReadTimeout.
GetTimesOut(r) ==
    /\ req[r].pc = "waiting"
    /\ silent[r] = timeout
    /\ \E exc \in {e \in RequestExceptions : IsTimeout(e)} :
          /\ answered' \in Answers(authenticate_end(req[r], Raised(exc)))
          /\ req' = [req EXCEPT ![r] = IdleRequest]
    /\ silent' = [silent EXCEPT ![r] = 0]
    /\ UNCHANGED <<expired, users, blacklist, logout, refresh, issued>>

\* The Books Service with the passing of time and the user table of the
\* Authentication Service it resolves against.
Next ==
    \/ \E r \in Reqs : Authenticate(r)
    \/ \E r \in Reqs : RequestsGetReturns(r)
    \/ Tick
    \/ \E u \in UserIds : DeleteUser(u)

Spec == Init /\ [][Next]_vars

\* The logout and refresh routes of the Authentication Service.
NextAuth ==
    \/ \E l \in LogoutReqs : LogoutVerify(l)
    \/ \E l \in LogoutReqs : LogoutBlacklist(l)
    \/ RefreshStart
    \/ RefreshVerify
    \/ RefreshEnds
    \/ Tick

SpecAuth == Init /\ [][NextAuth]_vars

\* The round trip: credentials issued by the token route, presented to the
\* Books Service and resolved against the User Resolution Endpoint.
NextRound ==
    \/ \E u \in UserIds : Login(u)
    \/ \E r \in Reqs : PresentIssued(r)
    \/ \E r \in Reqs : RequestsGetReturns(r)
    \/ Tick
    \/ \E u \in UserIds : DeleteUser(u)

SpecRound == Init /\ [][NextRound]_vars

\* A session: login, logout, and the use of the access credential after it.
NextSession ==
    \/ \E u \in UserIds : Login(u)
    \/ \E l \in LogoutReqs : LogoutIssued(l)
    \/ \E l \in LogoutReqs : LogoutBlacklist(l)
    \/ \E r \in Reqs : PresentAfterLogout(r)
    \/ \E r \in Reqs : RequestsGetReturns(r)
    \/ Tick
    \/ \E u \in UserIds : DeleteUser(u)

SpecSession == Init /\ [][NextSession]_vars

\* A GET of the resolver second by second.  The clock of a thread blocked
\* in requests.get does not stop: in every second bytes arrive or none do,
\* the call ends, or the timeout is raised.
Upstream(r) ==
    \/ ServerSilent(r)
    \/ ServerSends(r)
    \/ GetCompletes(r)
    \/ GetTimesOut(r)

NextLive ==
    \/ \E r \in Reqs : Authenticate(r)
    \/ \E r \in Reqs : ServerSilent(r)
    \/ \E r \in Reqs : ServerSends(r)
    \/ \E r \in Reqs : GetCompletes(r)
    \/ \E r \in Reqs : GetTimesOut(r)

SpecLive ==
    /\ Init
    /\ [][NextLive]_vars
    /\ \A r \in Reqs : WF_vars(Upstream(r))

----------------------------------------------------------------------------
(* Vocabulary of the properties                                            *)

\* The failure classes of the resolver, by the message the code raises.
InvalidCredentialLocal == AuthenticationFailed("token_not_valid", 0)
InvalidCredential == AuthenticationFailed("Invalid or expired token", 0)
UserNotFound == AuthenticationFailed("User not found in Auth Service", 0)
UpstreamError(status) == AuthenticationFailed("Auth Service error", status)
UpstreamTimeout == AuthenticationFailed("Auth Service timeout", 0)
UpstreamUnavailable == AuthenticationFailed("Cannot connect to Auth Service", 0)

\* The header is "Bearer <token>".
PresentsToken(header) == header.scheme = "Bearer" /\ header.parts = 2

\* Local verification of t succeeds while the types in lapsed have expired.
LocallyValid(t, lapsed) ==
    t.sig /\ t.token_type = "access" /\ "access" \notin lapsed

\* This step is a request that ended inside authenticate, before any GET.
EndsBeforeCall == req' = req /\ answered' # answered

\* This step is request r blocking in its GET.
StartsCall(r) == req[r].pc = "idle" /\ req'[r].pc = "waiting"

\* This step is the GET of request r ending and the request being answered.
EndsAfterCall(r) == req[r].pc = "waiting" /\ req'[r].pc = "idle"

\* No principal came out of the request and no action ran for it.
NoPrincipal(rq) ==
    rq.outcome.kind # "user" /\ rq.outcome.user = AnonymousUser /\ ~rq.ran

----------------------------------------------------------------------------
(* C1: a request whose bearer credential fails local verification (bad     *)
(* signature, expired, wrong token type) ends with an authentication error *)
(* answered 401, and no GET to the Authentication Service is issued for it *)
C1_LocalFailureNeverCalls ==
    [][ /\ ( /\ EndsBeforeCall
             /\ PresentsToken(answered'.header)
             /\ ~LocallyValid(answered'.header.token, expired) )
           => /\ answered'.outcome = InvalidCredentialLocal
              /\ answered'.status = 401
              /\ answered'.ncalls = 0
              /\ answered'.call = NoCall
              /\ NoPrincipal(answered')
        /\ \A r \in Reqs :
              StartsCall(r) => LocallyValid(req'[r].header.token, expired)
        /\ \A r \in Reqs :
              EndsAfterCall(r) => answered'.header = req[r].header
      ]_vars

\* An expired access credential was answered 401 without a call.
C1_Witness ==
    /\ answered.pc = "done"
    /\ answered.header = Bearer(Token("access", 1, TRUE))
    /\ answered.outcome = InvalidCredentialLocal
    /\ answered.ncalls = 0

(* C2: for a locally valid credential the remote status decides the        *)
(* failure: 404 gives UserNotFound, 401 gives InvalidCredential, any       *)
(* status other than 200, 404 and 401 gives UpstreamError with that        *)
(* status; none of them yields a principal                                 *)
C2_StatusToFailure ==
    (answered.pc = "done" /\ answered.resp.kind = "response") =>
        LET status == answered.resp.status_code
        IN  /\ status = 404 => answered.outcome = UserNotFound
            /\ status = 401 => answered.outcome = InvalidCredential
            /\ status \notin {200, 404, 401} => answered.outcome = UpstreamError(status)
            /\ status # 200 => NoPrincipal(answered) /\ answered.status = 401

\* A 404 of the Authentication Service was answered as UserNotFound.
C2_Witness ==
    /\ answered.pc = "done"
    /\ answered.resp.kind = "response"
    /\ answered.resp.status_code = 404
    /\ answered.outcome = UserNotFound

(* C3: a GET that times out fails with UpstreamTimeout, one that is        *)
(* refused or cannot connect fails with UpstreamUnavailable; each of the   *)
(* two outcomes arises from nothing else, and neither yields a principal   *)
C3_TimeoutAndUnavailable ==
    answered.pc = "done" =>
        /\ answered.resp.kind \in {"ReadTimeout", "ConnectTimeout"}
              <=> answered.outcome = UpstreamTimeout
        /\ answered.resp.kind = "ConnectionError"
              <=> answered.outcome = UpstreamUnavailable
        /\ answered.outcome \in {UpstreamTimeout, UpstreamUnavailable}
              => NoPrincipal(answered)

\* A connect timeout, which is both a Timeout and a ConnectionError, was
\* answered as UpstreamTimeout.
C3_Witness ==
    /\ answered.pc = "done"
    /\ answered.resp.kind = "ConnectTimeout"
    /\ answered.outcome = UpstreamTimeout

(* C4 as stated: whenever the GET returns 200 the resolver succeeds with a *)
(* principal whose id, username and email are those of the body and whose  *)
(* is_authenticated is true                                                *)
C4_Original ==
    (answered.pc = "done" /\ answered.resp.kind = "response"
        /\ answered.resp.status_code = 200) =>
        /\ answered.outcome.kind = "user"
        /\ {"id", "username", "email"} \subseteq answered.resp.body.fields
        /\ answered.outcome.user.id = answered.resp.body.id
        /\ answered.outcome.user.username = answered.resp.body.username
        /\ answered.outcome.user.email = answered.resp.body.email
        /\ answered.outcome.user.is_authenticated

(* C4 amended: when the GET returns 200 with a JSON object that has id and *)
(* username, the resolver succeeds with a principal whose id and username  *)
(* are those of the body, whose email is the body's email or the empty     *)
(* string when the body has none, and whose is_authenticated is true       *)
C4_PrincipalFromBody ==
    (answered.pc = "done" /\ answered.resp.kind = "response"
        /\ answered.resp.status_code = 200 /\ answered.resp.json
        /\ {"id", "username"} \subseteq answered.resp.body.fields) =>
        /\ answered.outcome.kind = "user"
        /\ answered.outcome.user.id = answered.resp.body.id
        /\ answered.outcome.user.username = answered.resp.body.username
        /\ answered.outcome.user.email =
              (IF "email" \in answered.resp.body.fields
               THEN answered.resp.body.email ELSE EmptyString)
        /\ answered.outcome.user.is_authenticated
        /\ ~answered.outcome.user.is_anonymous

\* User 2 was resolved from a full body of the Authentication Service.
C4_Witness ==
    /\ answered.pc = "done"
    /\ answered.resp.status_code = 200
    /\ answered.resp.body.fields = UserFields
    /\ answered.outcome.kind = "user"
    /\ answered.outcome.user.id = 2
    /\ answered.outcome.user.email = Email(2)

(* C5: resolution is all-or-nothing: whatever the GET ends with (any       *)
(* status, any body, also a 200 body without id or username, a timeout, a  *)
(* connection failure), the resolver ends with a fully populated principal *)
(* or with an authentication error, never with another kind of failure     *)
C5_AllOrNothing ==
    (answered.pc = "done" /\ answered.ncalls > 0) =>
        \/ /\ answered.outcome.kind = "user"
           /\ answered.outcome.user.is_authenticated
           /\ answered.outcome.user.id \in UserIds
           /\ answered.outcome.user.username # EmptyString
        \/ /\ answered.outcome.kind = "AuthenticationFailed"
           /\ answered.outcome.user = AnonymousUser

\* The GET of rq is the one its own credential asks for.
OwnCall(rq) ==
    /\ PresentsToken(rq.header)
    /\ rq.call.user_id = rq.header.token.user_id
    /\ rq.call.has_auth
    /\ rq.call.token = rq.header.token

(* C6: every GET of the resolver goes to users/{user_id} of the            *)
(* credential's own subject and carries "Authorization: Bearer <token>"    *)
(* with the raw bearer string of the inbound request; it is never sent     *)
(* without the header or with another token                                *)
C6_CallForwardsOwnBearer ==
    /\ \A r \in Reqs : req[r].pc = "waiting" => OwnCall(req[r])
    /\ (answered.pc = "done" /\ answered.ncalls > 0) => OwnCall(answered)
    /\ (answered.pc = "done" /\ answered.ncalls = 0) => answered.call = NoCall

\* Two requests with different credentials are blocked in their GETs.
C6_Witness ==
    /\ \A r \in Reqs : req[r].pc = "waiting"
    /\ \E r1, r2 \in Reqs : req[r1].call.token # req[r2].call.token

\* What holds of the calls of every request, with or without a user_id.
C7_OneCallNoReuse ==
    /\ \A r \in Reqs : StartsCall(r) => req'[r].ncalls = 1
    /\ \A r \in Reqs : req[r].pc = "waiting" => (req'[r] = req[r] \/ EndsAfterCall(r))
    /\ \A r \in Reqs :
          EndsAfterCall(r) =>
              /\ answered'.ncalls = 1
              /\ answered'.call = req[r].call
              /\ answered'.resp # NoResp
              /\ answered'.outcome.kind = "user" =>
                    /\ answered'.resp.status_code = 200
                    /\ answered'.call.user_id \in users

(* C7 as stated: every request whose credential passes local verification  *)
(* triggers exactly one GET, during that request; no retry after a failed  *)
(* or timed-out call, no principal or response from an earlier request     *)
C7_Original ==
    [][ /\ (EndsBeforeCall /\ PresentsToken(answered'.header))
              => ~LocallyValid(answered'.header.token, expired)
        /\ C7_OneCallNoReuse
      ]_vars

(* C7 amended: every request whose credential passes local verification    *)
(* and carries a user_id triggers exactly one GET, during that request; a  *)
(* locally valid credential without user_id fails with "Token has no       *)
(* user_id" and triggers none; no retry after a failed or timed-out call,  *)
(* no principal or response from an earlier request                        *)
C7_ExactlyOneCall ==
    [][ /\ ( /\ EndsBeforeCall
             /\ PresentsToken(answered'.header)
             /\ LocallyValid(answered'.header.token, expired) )
           => /\ answered'.header.token.user_id = 0
              /\ answered'.outcome = AuthenticationFailed("Token has no user_id", 0)
              /\ answered'.ncalls = 0
        /\ \A r \in Reqs : StartsCall(r) => req'[r].header.token.user_id # 0
        /\ C7_OneCallNoReuse
      ]_vars

\* A request whose GET timed out was answered after that one call, with no
\* other request in flight.
C7_Witness ==
    /\ answered.pc = "done"
    /\ answered.resp.kind = "ReadTimeout"
    /\ answered.ncalls = 1
    /\ \A r \in Reqs : req[r].pc = "idle"

\* What holds of every request as to the action it asked for.
C8_NoActionWithoutPrincipal ==
    /\ (answered.pc = "done" /\ ~PresentsToken(answered.header)) =>
          /\ answered.ncalls = 0
          /\ answered.call = NoCall
          /\ answered.status = 401
          /\ ~answered.ran
    /\ (answered.pc = "done" /\ answered.ran) =>
          /\ answered.action \in Actions
          /\ answered.outcome.kind = "user"
          /\ answered.ncalls = 1
          /\ answered.resp.status_code = 200

(* C8 as stated: a request with no Authorization header, or no bearer      *)
(* token in it, makes the resolver return "no credential" without raising  *)
(* and without a GET; it is answered 401 and no BookViewSet action runs;   *)
(* no action runs for a request without a principal resolved in it         *)
C8_Original ==
    /\ (answered.pc = "done" /\ ~PresentsToken(answered.header)) =>
          answered.outcome = ReturnedNone
    /\ C8_NoActionWithoutPrincipal

(* C8 amended: a request with no Authorization header, an empty one or one *)
(* of another scheme makes the resolver return "no credential" without     *)
(* raising; a Bearer header without exactly one token after it makes it    *)
(* raise AuthenticationFailed; in both cases no GET is issued, the request *)
(* is answered 401 and no BookViewSet action runs; no action runs for a    *)
(* request without a principal resolved in it                              *)
C8_NoCredentialIs401 ==
    /\ (answered.pc = "done" /\ ~PresentsToken(answered.header)) =>
          IF answered.header.scheme = "Bearer"
          THEN answered.outcome = AuthenticationFailed("bad_authorization_header", 0)
          ELSE answered.outcome = ReturnedNone
    /\ C8_NoActionWithoutPrincipal

\* A request without Authorization header was answered 401.
C8_Witness ==
    /\ answered.pc = "done"
    /\ answered.header = NoHeader
    /\ answered.outcome = ReturnedNone
    /\ answered.status = 401

(* C9: once a logout with a refresh credential has answered 200, the       *)
(* credential is in the Revocation Set from then on and every refresh call *)
(* with it that starts afterwards fails, in every interleaving of logout   *)
(* and refresh requests and also while the credential has not expired      *)
C9_RevokedRefreshFails ==
    /\ \A l \in LogoutReqs :
          (logout[l].pc = "done" /\ logout[l].status = 200)
             => logout[l].token \in blacklist
    /\ (refresh.pc = "done" /\ refresh.after_logout) => refresh.status = 401

\* A refresh with an unexpired credential, started after its logout had
\* answered 200, was answered 401.
C9_Witness ==
    /\ refresh.pc = "done"
    /\ refresh.after_logout
    /\ "refresh" \notin expired
    /\ refresh.status = 401

(* C10: revoke is idempotent: a logout with a valid refresh credential     *)
(* that follows a logout with the same credential answered 200 leaves the  *)
(* credential revoked and reports no error, answering 200 like the first   *)
C10_LogoutIdempotent ==
    \A l \in LogoutReqs :
        ( /\ logout[l].pc = "done"
          /\ logout[l].after_logout
          /\ logout[l].status # 401
          /\ "refresh" \notin expired )
        => /\ logout[l].token \in blacklist
           /\ logout[l].status = 200

\* The refresh field carries something that is no refresh credential of the
\* Authentication Service: a bad signature or another token type.
Malformed(token) ==
    token # NoToken /\ (~token.sig \/ token.token_type # "refresh")

(* C11: a logout by an authenticated caller answers 200 only when the       *)
(* supplied refresh credential has been added to the Revocation Set; with   *)
(* the refresh field missing or the credential malformed it answers 400 and *)
(* the Revocation Set is what it was before the request (a logout answered  *)
(* 401 is one whose caller was not authenticated)                           *)
C11_LogoutAnswers ==
    [][ \A l \in LogoutReqs :
          /\ (logout'[l].status = 200 /\ logout[l].status # 200)
                => /\ logout'[l].token \in blacklist'
                   /\ logout'[l].token \in RefreshTokens
          /\ ( /\ logout[l].pc = "idle" /\ logout'[l].pc # "idle"
               /\ (logout'[l].token = NoToken \/ Malformed(logout'[l].token)) )
                => /\ logout'[l].pc = "done"
                   /\ logout'[l].status \in {400, 401}
                   /\ blacklist' = blacklist
          /\ (logout'[l].status = 400 /\ logout[l].status # 400)
                => blacklist' = blacklist
      ]_vars

\* A logout with a malformed credential was answered 400 after another
\* logout had revoked a credential, which is still the whole Revocation Set.
C11_Witness ==
    \E l, k \in LogoutReqs :
        /\ logout[l].pc = "done" /\ logout[l].status = 400
        /\ Malformed(logout[l].token)
        /\ logout[k].pc = "done" /\ logout[k].status = 200
        /\ blacklist = {logout[k].token}

(* C12: a refresh-type credential presented as a bearer to the Books        *)
(* Service is rejected by local verification, also while it has not         *)
(* expired: the request ends with InvalidCredential answered 401, without a *)
(* principal, and no GET to the Authentication Service is issued for it     *)
C12_RefreshNeverAccepted ==
    /\ \A r \in Reqs :
          req[r].pc = "waiting" => req[r].header.token.token_type = "access"
    /\ ( /\ answered.pc = "done"
         /\ PresentsToken(answered.header)
         /\ answered.header.token.token_type = "refresh" )
       => /\ answered.outcome = InvalidCredentialLocal
          /\ answered.status = 401
          /\ answered.ncalls = 0
          /\ answered.call = NoCall
          /\ answered.resp = NoResp
          /\ NoPrincipal(answered)

\* A signed refresh credential that has not expired was presented as a
\* bearer and answered 401 without a call.
C12_Witness ==
    /\ expired = {}
    /\ answered.pc = "done"
    /\ answered.header = Bearer(Token("refresh", 2, TRUE))
    /\ answered.outcome = InvalidCredentialLocal
    /\ answered.ncalls = 0

(* C13: round trip across the two services: the access credential the       *)
(* token route issues for a valid username and password of user u carries   *)
(* u.id; presented to the Books Service while unexpired it passes local     *)
(* verification with subject u.id and the GET goes to users/u.id; while u   *)
(* exists the answer of the User Resolution Endpoint resolves to a          *)
(* principal whose id is u.id, and no principal resolved for it carries     *)
(* another id                                                               *)
C13_RoundTrip ==
    [][ /\ issued'.status = 200 =>
              /\ issued'.user_id \in UserIds
              /\ issued'.access = Token("access", issued'.user_id, TRUE)
        /\ (EndsBeforeCall /\ answered'.header = Bearer(issued.access))
              => "access" \in expired
        /\ \A r \in Reqs :
              StartsCall(r) =>
                  /\ req'[r].header = Bearer(issued.access)
                  /\ req'[r].call.user_id = issued.user_id
        /\ \A r \in Reqs :
              ( /\ EndsAfterCall(r)
                /\ "access" \notin expired
                /\ req[r].call.user_id \in users
                /\ answered'.resp \in auth_service_answers(req[r].call, expired, users) )
              => /\ answered'.outcome.kind = "user"
                 /\ answered'.outcome.user.id = req[r].call.user_id
                 /\ answered'.outcome.user.username = Username(req[r].call.user_id)
        /\ \A r \in Reqs :
              (EndsAfterCall(r) /\ answered'.outcome.kind = "user")
              => answered'.outcome.user.id = req[r].header.token.user_id
      ]_vars

\* User 2 logged in, presented the access credential and was resolved to
\* the principal with id 2 while user 1 exists as well.
C13_Witness ==
    /\ issued.status = 200
    /\ issued.user_id = 2
    /\ answered.pc = "done"
    /\ answered.header = Bearer(issued.access)
    /\ answered.outcome.kind = "user"
    /\ answered.outcome.user.id = 2
    /\ users = UserIds

\* The request was let through the permissions and its action ran to the
\* answer the action gives.
Performed(rq) == rq.ran /\ rq.status = action_status(rq.action)

\* The request was turned away by the permissions.
Denied(rq) == rq.status = 403 /\ rq.saved = <<>>

(* C14: an update or partial update of a book by a resolved principal is    *)
(* allowed if and only if the id of the principal is the user_id of the     *)
(* book or the principal is staff: the owner's update is performed, that of *)
(* a non-staff principal with another id is not                             *)
C14_OwnerMayUpdate ==
    ( /\ answered.pc = "done"
      /\ answered.outcome.kind = "user"
      /\ answered.action \in {"update", "partial_update"} )
    => ( Performed(answered)
            <=> \/ answered.outcome.user.id = answered.owner
                \/ is_staff(answered.outcome.user) )

C16_CreateRecordsPrincipal ==
    /\ ( /\ answered.pc = "done"
         /\ answered.outcome.kind = "user"
         /\ answered.action = "create" )
       => /\ Performed(answered)
          /\ answered.status = 201
          /\ answered.saved = <<answered.outcome.user.id>>
    /\ answered.saved # <<>>
       => /\ answered.action = "create"
          /\ answered.outcome.kind = "user"
          /\ answered.saved = <<answered.outcome.user.id>>
          /\ answered.outcome.user.id \in UserIds
          /\ answered.outcome.user.id = answered.header.token.user_id

\* User 2 created a book, which was saved with user_id 2.
C16_Witness ==
    /\ answered.pc = "done"
    /\ answered.action = "create"
    /\ answered.status = 201
    /\ answered.outcome.user.id = 2
    /\ answered.saved = <<2>>

(* C17: when the subject of a locally valid access credential has no user   *)
(* record, the User Resolution Endpoint answers 404 to the GET of the       *)
(* resolver, the resolver fails with UserNotFound and the client is         *)
(* answered 401; the endpoint answers 401 only when the forwarded           *)
(* credential itself fails remote verification                              *)
C17_MissingSubjectIs404 ==
    [][ \A r \in Reqs :
          ( /\ EndsAfterCall(r)
            /\ answered'.resp \in auth_service_answers(req[r].call, expired, users) )
          => /\ ( /\ remote_verify(req[r].call, expired)
                  /\ req[r].call.user_id \notin users )
                => /\ answered'.resp.status_code = 404
                   /\ answered'.outcome = UserNotFound
                   /\ answered'.status = 401
             /\ answered'.resp.status_code = 401
                => ~remote_verify(req[r].call, expired)
      ]_vars

\* Request r is blocked in its GET.
InCall(r) == req[r].pc = "waiting"

\* Request r is over, and the request answered last ended with a principal
\* or with an authentication error.
EndedWell(r) ==
    /\ req[r].pc = "idle"
    /\ answered.pc = "done"
    /\ answered.outcome.kind \in {"user", "AuthenticationFailed"}

(* C18: every call of the resolver terminates: whatever the Authentication  *)
(* Service does (it answers, answers slowly, never answers, refuses the     *)
(* connection), the request that is blocked in its GET eventually ends with *)
(* a principal or an authentication error, and no request waits on the      *)
(* upstream forever                                                         *)
C18_EveryCallEnds ==
    \A r \in Reqs : InCall(r) ~> EndedWell(r)

\* This step is a step of request r.
StepOf(r) == req'[r] # req[r]

(* C19: concurrent Books Service requests are independent: in every         *)
(* interleaving a step of one request leaves the other requests in flight   *)
(* as they are and changes no state that outlives the request; the bearer   *)
(* it forwards is the one of its own header, the response it reads is an    *)
(* answer to its own GET, and its outcome (the principal or the failure) is *)
(* the one that response and its own credential give                        *)
C19_RequestsIndependent ==
    [][ /\ \A r \in Reqs :
              StepOf(r) =>
                  /\ \A q \in Reqs \ {r} : req'[q] = req[q]
                  /\ UNCHANGED <<expired, users, blacklist, logout, refresh, issued>>
                  /\ StartsCall(r) =>
                        /\ OwnCall(req'[r])
                        /\ answered' = answered
                  /\ EndsAfterCall(r) =>
                        /\ answered'.header = req[r].header
                        /\ answered'.call = req[r].call
                        /\ answered'.resp \in requests_get(req[r].call, expired, users)
                        /\ answered'.outcome =
                              (IF answered'.resp.kind = "response"
                               THEN on_response(answered'.resp)
                               ELSE on_exception(answered'.resp.kind))
                        /\ answered'.outcome.kind = "user" =>
                              answered'.outcome.user.id = req[r].header.token.user_id
        /\ EndsBeforeCall =>
              UNCHANGED <<expired, users, blacklist, logout, refresh, issued, req>>
      ]_vars

\* The resolution of one request failed on a timeout while the request of
\* another user is still blocked in its own GET, with its own bearer.
C19_Witness ==
    /\ answered.pc = "done"
    /\ answered.ncalls = 1
    /\ answered.outcome = UpstreamTimeout
    /\ \E q \in Reqs :
          /\ req[q].pc = "waiting"
          /\ req[q].header.token.user_id # answered.header.token.user_id
          /\ OwnCall(req[q])

(* C20: logout revokes the refresh credential only: with the refresh        *)
(* credential of its login in the Revocation Set, the access credential of  *)
(* the same login still passes the local verification of the Books Service  *)
(* and its GET is still resolved to the principal of its user, as long as   *)
(* it has not expired and the user exists; the Books Service request path   *)
(* does not write the Revocation Set either                                 *)
C20_AccessSurvivesLogout ==
    [][ /\ (EndsBeforeCall /\ answered'.header = Bearer(issued.access))
              => "access" \in expired
        /\ EndsBeforeCall => blacklist' = blacklist
        /\ \A r \in Reqs :
              StartsCall(r) =>
                  /\ issued.refresh \in blacklist
                  /\ req'[r].header = Bearer(issued.access)
                  /\ blacklist' = blacklist
        /\ \A r \in Reqs :
              EndsAfterCall(r) => blacklist' = blacklist
        /\ \A r \in Reqs :
              ( /\ EndsAfterCall(r)
                /\ issued.refresh \in blacklist
                /\ "access" \notin expired
                /\ req[r].call.user_id \in users
                /\ answered'.resp \in auth_service_answers(req[r].call, expired, users) )
              => /\ answered'.outcome.kind = "user"
                 /\ answered'.outcome.user.id = issued.user_id
      ]_vars

\* After the logout of user 2 was answered 200, a request with the access
\* credential of that login was resolved to the principal with id 2.
C20_Witness ==
    /\ \E l \in LogoutReqs : logout[l].pc = "done" /\ logout[l].status = 200
    /\ issued.user_id = 2
    /\ blacklist = {issued.refresh}
    /\ answered.pc = "done"
    /\ answered.header = Bearer(issued.access)
    /\ answered.outcome.kind = "user"
    /\ answered.outcome.user.id = 2

\* The request can pass the Authorization Gate only on staff status: a
\* delete, or an update of a book of another user.
StaffOnly(rq) ==
    \/ rq.action = "destroy"
    \/ rq.action \in {"update", "partial_update"} /\ rq.owner # rq.outcome.user.id

(* C21: no principal built by the resolver carries staff status: the body   *)
(* of a 200 of the User Resolution Endpoint has no key besides id,          *)
(* username, email, first_name and last_name, the principal has exactly the *)
(* attributes id, username, email, is_authenticated, is_active and          *)
(* is_anonymous, so its is_staff is never true, also for an account that is *)
(* staff in the Authentication Service, and a request that could pass the   *)
(* Authorization Gate only on staff status is never let through it          *)
C21_NoStaffPrincipal ==
    /\ \A r \in Reqs : ~is_staff(req[r].outcome.user)
    /\ ( answered.pc = "done" /\ answered.outcome.kind = "user" )
       => /\ answered.resp.body.fields \subseteq UserFields
          /\ DOMAIN answered.outcome.user = StatelessUserAttributes
          /\ ~is_staff(answered.outcome.user)
          /\ StaffOnly(answered)
                => /\ ~authorize(answered.outcome.user, answered.owner, answered.action)
                   /\ ~Performed(answered)

\* An account that is staff in the Authentication Service, and still
\* exists there, was resolved to a principal, asked to delete a book and
\* was turned away with 403.
C21_Witness ==
    /\ answered.pc = "done"
    /\ answered.outcome.kind = "user"
    /\ answered.outcome.user.id \in StaffIds \cap users
    /\ answered.resp.status_code = 200
    /\ answered.action = "destroy"
    /\ answered.status = 403
    /\ ~answered.ran

====
